---- MODULE Spec2Model ----
(***************************************************************************)
(* A model of arrapi's SonarrAPI (src/arrapi/sonarr.py): the bulk          *)
(* operations add_multiple_series, edit_multiple_series and                *)
(* delete_multiple_series, and the validators they are built from.         *)
(*                                                                         *)
(* One call runs per behaviour.  Every remote request the call issues is   *)
(* one step and is appended to log; a response the code reads is chosen    *)
(* by the remote service.  Python values are encoded as follows:           *)
(*   None           the string "None" (NONE) for scalar arguments, the     *)
(*                  empty sequence for per_request and tags, which are     *)
(*                  passed wrapped in a one-element sequence when given    *)
(*   True / False   the strings "True" / "False" in arguments (any Python  *)
(*                  value may be passed, the code tests its truthiness)    *)
(*   an int or a Series in tvdb_ids   a record [isSeries, tvdbId, id]      *)
(*   a dict         a function from its keys (strings) to its values       *)
(***************************************************************************)
EXTENDS Integers, Sequences, FiniteSets, TLC

\* ------------------------------------------------------------------ bounds

\* The longest tvdb_ids list a call is given.
MaxLen == 3

\* The largest per_request a call is given.
MaxPerRequest == 3

\* The longest list of language profiles the remote service returns.
MaxProfiles == 2

\* The most optional fields a direct call of _validate_edit_options sets.
MaxFields == 2

\* ----------------------------------------------------------------- helpers

NONE == "None"

Min(a, b) == IF a < b THEN a ELSE b

Range(s) == {s[j] : j \in DOMAIN s}

SeqsUpTo(S, n) == UNION {[1..m -> S] : m \in 0..n}

\* Slice with a plausible slip: a last slice shorter than k is dropped.
SliceFullOnly(s, i, k) == IF i + k <= Len(s) THEN SubSeq(s, i + 1, i + k) ELSE <<>>

\* Python's s[i:i+k] for 0 <= i, 1 <= k (i is 0-based).
Slice(s, i, k) == SubSeq(s, i + 1, Min(i + k, Len(s)))

\* Python's truthiness of an argument ("True if x else False").
Truthy(v) == v \notin {"False", "None", "0", ""}

\* ------------------------------------------------------- the remote service

\* TVDb identifiers callers pass.
TvdbIds == {1, 2, 3}

\* A raw integer identifier in tvdb_ids.
RawId(t) == [isSeries |-> FALSE, tvdbId |-> t, id |-> 0]

\* A Series object in tvdb_ids: id is 0 (falsy) while it is not in Sonarr.
SeriesObj(t, sid) == [isSeries |-> TRUE, tvdbId |-> t, id |-> sid]

\* What the lookup of a TVDb id yields: 1 is a series not yet in Sonarr,
\* 2 is a series already in Sonarr (id 12), 3 is unknown to the lookup.
LookupKnown == {1, 2}

LibraryId(t) == IF t = 2 THEN 12 ELSE 0

Items == {RawId(t) : t \in TvdbIds} \cup {SeriesObj(t, LibraryId(t)) : t \in LookupKnown}

\* The answers GET /series can give: the series of the library in the order
\* the service lists them, each with its own Sonarr id.
Catalogs ==
  { <<>>,
    << [tvdbId |-> 1, id |-> 11] >>,
    << [tvdbId |-> 2, id |-> 12], [tvdbId |-> 1, id |-> 11] >>,
    << [tvdbId |-> 1, id |-> 11], [tvdbId |-> 3, id |-> 13], [tvdbId |-> 1, id |-> 14] >> }

\* What a batch endpoint answers for a chunk: one entry per item, or the
\* entries without the last when the service skips it.
Responses(chunk) ==
  {chunk} \cup (IF chunk = <<>> THEN {} ELSE {SubSeq(chunk, 1, Len(chunk) - 1)})

\* ---------------------------------------------------------- per_request

PerRequests == {<<>>} \cup {<<k>> : k \in 1..MaxPerRequest}

\* "if per_request is None: per_request = len(items)"
ChunkSize(pr, items) == IF pr = <<>> THEN Len(items) ELSE pr[1]

\* ------------------------------------------------------ _validate_tvdb_ids

\* tvdb_sonarr_ids = {m.tvdbId: m for m in self.all_series()}: a later entry
\* with the same tvdbId replaces an earlier one.
TvdbSonarrIds(cat) ==
  [t \in {cat[j].tvdbId : j \in DOMAIN cat} |->
     LET last == CHOOSE j \in DOMAIN cat :
                   /\ cat[j].tvdbId = t
                   /\ \A m \in DOMAIN cat : cat[m].tvdbId = t => m <= j
     IN cat[last]]

\* "if isinstance(tvdb_id, Series): tvdb_id = tvdb_id.tvdbId"
TvdbIdOf(item) == item.tvdbId

RECURSIVE ValidateTvdbIdsLoop(_, _, _, _)
ValidateTvdbIdsLoop(map, items, valid, invalid) ==
  IF items = <<>> THEN [valid_ids |-> valid, invalid_ids |-> invalid]
  ELSE LET tvdb_id == TvdbIdOf(Head(items))
       IN IF tvdb_id \in DOMAIN map
          THEN ValidateTvdbIdsLoop(map, Tail(items), Append(valid, map[tvdb_id].id), invalid)
          ELSE ValidateTvdbIdsLoop(map, Tail(items), valid, Append(invalid, tvdb_id))

\* ValidateTvdbIds with a plausible slip: an identifier given twice is
\* reconciled once.
RECURSIVE Dedup(_)
Dedup(items) ==
  IF items = <<>> THEN <<>>
  ELSE LET rest == Dedup(SubSeq(items, 1, Len(items) - 1))
           x == items[Len(items)]
       IN IF \E j \in DOMAIN rest : TvdbIdOf(rest[j]) = TvdbIdOf(x) THEN rest
          ELSE Append(rest, x)

ValidateTvdbIdsDedup(cat, items) ==
  ValidateTvdbIdsLoop(TvdbSonarrIds(cat), Dedup(items), <<>>, <<>>)

ValidateTvdbIds(cat, items) == ValidateTvdbIdsLoop(TvdbSonarrIds(cat), items, <<>>, <<>>)

\* ------------------------------------------------------- option validators

Ok(v) == [ok |-> TRUE, value |-> v]

Invalid == [ok |-> FALSE, value |-> NONE]

\* self.monitor_options and self.series_type_options (__init__).
monitor_options ==
  {"all", "future", "missing", "existing", "pilot", "firstSeason", "latestSeason", "none"}

series_type_options == {"standard", "daily", "anime"}

\* BaseAPI.apply_tags_options.
apply_tags_options == {"add", "replace", "remove"}

\* util.validate_options: the value when it is one of the options, else Invalid.
validate_options(value, opts) == IF value \in opts THEN Ok(value) ELSE Invalid

ValidateMonitor(monitor) == validate_options(monitor, monitor_options)

ValidateSeriesType(series_type) == validate_options(series_type, series_type_options)

\* The root folders, quality profiles and tags of the remote service.
RootFolders == {"/tv"}

QualityProfileIds == [n \in {"HD"} |-> 4]

RemoteTags == {"old"}

\* BaseAPI._validate_root_folder: the folder's path, or Invalid.
ValidateRootFolder(root_folder) ==
  IF root_folder \in RootFolders THEN Ok(root_folder) ELSE Invalid

\* BaseAPI._validate_quality_profile: the profile's id, or Invalid.
ValidateQualityProfile(quality_profile) ==
  IF quality_profile \in DOMAIN QualityProfileIds
  THEN Ok(QualityProfileIds[quality_profile]) ELSE Invalid

\* The tags BaseAPI._validate_tags creates on the remote service: with
\* create, those of the given tags the service does not have yet.
TagsCreated(tags, create) ==
  IF create THEN SelectSeq(tags, LAMBDA t : t \notin RemoteTags) ELSE <<>>

\* What BaseAPI._validate_tags returns: the given tags the service has
\* (after creating the missing ones, with create).
ValidateTags(tags, create) ==
  SelectSeq(tags, LAMBDA t : create \/ t \in RemoteTags)

\* ------------------------------------------------ _validate_language_profile

\* A reference to a language profile: its name (a str), its id (an int) or a
\* LanguageProfile object; kind "none" is None.
NoCandidate == [kind |-> "none", id |-> 0, name |-> ""]

ByName(n) == [kind |-> "name", id |-> 0, name |-> n]

ById(k) == [kind |-> "id", id |-> k, name |-> ""]

ByObject(p) == [kind |-> "obj", id |-> p.id, name |-> p.name]

\* ProfileMatches with a plausible slip: only the name is compared.
ProfileMatchesNameOnly(profile, language_profile) ==
  language_profile.kind = "name" /\ profile.name = language_profile.name

\* The condition of lines 353-355. A str equals neither an int nor a
\* LanguageProfile object, so profile.name == language_profile needs a str.
ProfileMatches(profile, language_profile) ==
  \/ language_profile.kind = "obj" /\ profile.id = language_profile.id
  \/ language_profile.kind = "id" /\ profile.id = language_profile.id
  \/ language_profile.kind = "name" /\ profile.name = language_profile.name

RECURSIVE ValidateLanguageProfileLoop(_, _)
ValidateLanguageProfileLoop(profs, language_profile) ==
  IF profs = <<>> THEN Invalid
  ELSE IF ProfileMatches(Head(profs), language_profile) THEN Ok(Head(profs).id)
  ELSE ValidateLanguageProfileLoop(Tail(profs), language_profile)

ValidateLanguageProfile(profs, language_profile) ==
  ValidateLanguageProfileLoop(profs, language_profile)

\* The lists GET /languageProfile can answer. The client checks nothing
\* about the list: two of its profiles may share a name (or an id).
ProfileIds == {1, 2, 3}

ProfileNames == {"English", "German"}

ProfileLists == SeqsUpTo([id : ProfileIds, name : ProfileNames], MaxProfiles)

\* The list the option builders are run against.
StandardProfiles == << [id |-> 1, name |-> "English"], [id |-> 2, name |-> "German"] >>

\* --------------------------------------------------- _validate_edit_options

\* The state of a builder: the exception raised so far, the map, and the tags
\* created on the remote service.
Building(opts) == [exc |-> "", options |-> opts, created |-> <<>>]

\* options[key] = <validator result>, skipped once an exception is raised.
Put(r, present, key, res) ==
  IF r.exc # "" \/ ~present THEN r
  ELSE IF res.ok THEN [r EXCEPT !.options = (key :> res.value) @@ @]
  ELSE [r EXCEPT !.exc = "Invalid"]

\* PutTags with a plausible slip: applyTags is checked but not stored.
PutTagsNoApply(r, tags, apply_tags) ==
  IF r.exc # "" \/ tags = <<>> THEN r
  ELSE LET create == apply_tags # "remove"
           r1 == [r EXCEPT !.options = ("tags" :> ValidateTags(tags[1], create)) @@ @,
                           !.created = @ \o TagsCreated(tags[1], create)]
       IN IF apply_tags \in apply_tags_options THEN r1 ELSE [r1 EXCEPT !.exc = "Invalid"]

\* Lines 131-136: the tags are validated (and created) before apply_tags is
\* looked at.
PutTags(r, tags, apply_tags) ==
  IF r.exc # "" \/ tags = <<>> THEN r
  ELSE LET create == apply_tags # "remove"
           r1 == [r EXCEPT !.options = ("tags" :> ValidateTags(tags[1], create)) @@ @,
                           !.created = @ \o TagsCreated(tags[1], create)]
       IN IF apply_tags \in apply_tags_options
          THEN [r1 EXCEPT !.options = ("applyTags" :> apply_tags) @@ @]
          ELSE [r1 EXCEPT !.exc = "Invalid"]

\* Lines 109-111: all(v is None for v in variables).
AllNone(a) ==
  /\ a.root_folder = NONE
  /\ a.path = NONE
  /\ a.quality_profile = NONE
  /\ a.language_profile.kind = "none"
  /\ a.monitor = NONE
  /\ a.monitored = NONE
  /\ a.season_folder = NONE
  /\ a.series_type = NONE
  /\ a.tags = <<>>

ValidateEditOptions(a, profs) ==
  IF AllNone(a) THEN [exc |-> "ValueError", options |-> <<>>, created |-> <<>>]
  ELSE
    LET r0 == Building([moveFiles |-> Truthy(a.move_files)])
        r1 == Put(r0, a.root_folder # NONE, "rootFolderPath", ValidateRootFolder(a.root_folder))
        r2 == Put(r1, a.path # NONE, "path", Ok(a.path))
        r3 == Put(r2, a.quality_profile # NONE,
                  IF a.v3 THEN "qualityProfileId" ELSE "profileId",
                  ValidateQualityProfile(a.quality_profile))
        r4 == Put(r3, a.language_profile.kind # "none", "languageProfileId",
                  ValidateLanguageProfile(profs, a.language_profile))
        r5 == Put(r4, a.monitor # NONE, "monitor", ValidateMonitor(a.monitor))
        r6 == Put(r5, a.monitored # NONE, "monitored", Ok(Truthy(a.monitored)))
        r7 == Put(r6, a.season_folder # NONE, "seasonFolder", Ok(Truthy(a.season_folder)))
        r8 == Put(r7, a.series_type # NONE, "seriesType", ValidateSeriesType(a.series_type))
    IN PutTags(r8, a.tags, a.apply_tags)

\* The arguments of _validate_edit_options with their defaults.
EditDefaults ==
  [root_folder |-> NONE, path |-> NONE, move_files |-> "False", quality_profile |-> NONE,
   language_profile |-> NoCandidate, monitor |-> NONE, monitored |-> NONE,
   season_folder |-> NONE, series_type |-> NONE, tags |-> <<>>, apply_tags |-> "add",
   v3 |-> TRUE]

\* The values a direct call passes for each argument: None, valid ones and
\* invalid ones.
EditArgValues ==
  [root_folder : {NONE, "/tv", "/bad"},
   path : {NONE, "/tv/show"},
   move_files : {"False", "True"},
   quality_profile : {NONE, "HD", "4K"},
   language_profile : {NoCandidate, ByName("German"), ByName("Klingon")},
   monitor : {NONE, "all", "none", "bogus"},
   monitored : {NONE, "True", "False"},
   season_folder : {NONE, "True", "False"},
   series_type : {NONE, "anime", "bogus"},
   tags : {<<>>, << <<>> >>, << <<"old">> >>, << <<"new">> >>},
   apply_tags : {"add", "replace", "remove", "bogus"},
   v3 : BOOLEAN]

\* The optional fields of a that are not None.
FieldsSet(a) ==
  {f \in {"root_folder", "path", "quality_profile", "monitor", "monitored",
          "season_folder", "series_type"} : a[f] # NONE}
  \cup (IF a.language_profile.kind # "none" THEN {"language_profile"} ELSE {})
  \cup (IF a.tags # <<>> THEN {"tags"} ELSE {})

EditArgs == {a \in EditArgValues : Cardinality(FieldsSet(a)) <= MaxFields}

\* ---------------------------------------------------- _validate_add_options

\* Lines 90-103. The dict display validates in the order written; tags come
\* last and only when the list is not empty ("if tags:").
ValidateAddOptions(a, profs) ==
  LET r0 == Building(<<>>)
      r1 == Put(r0, TRUE, "root_folder", ValidateRootFolder(a.root_folder))
      r2 == Put(r1, TRUE, IF a.v3 THEN "quality_profile" ELSE "profileId",
                ValidateQualityProfile(a.quality_profile))
      r3 == Put(r2, TRUE, "language_profile",
                ValidateLanguageProfile(profs, a.language_profile))
      r4 == Put(r3, TRUE, "monitor", ValidateMonitor(a.monitor))
      r5 == Put(r4, TRUE, "monitored", Ok(a.monitor # "none"))
      r6 == Put(r5, TRUE, "season_folder", Ok(Truthy(a.season_folder)))
      r7 == Put(r6, TRUE, "search", Ok(Truthy(a.search)))
      r8 == Put(r7, TRUE, "unmet_search", Ok(Truthy(a.unmet_search)))
      r9 == Put(r8, TRUE, "series_type", ValidateSeriesType(a.series_type))
  IN IF r9.exc # "" \/ a.tags = <<>> \/ a.tags = << <<>> >> THEN r9
     ELSE [r9 EXCEPT !.options = ("tags" :> ValidateTags(a.tags[1], TRUE)) @@ @,
                     !.created = @ \o TagsCreated(a.tags[1], TRUE)]

\* add_multiple_series' option arguments with their defaults.
AddDefaults ==
  [root_folder |-> "/tv", quality_profile |-> "HD", language_profile |-> ByName("English"),
   monitor |-> "all", season_folder |-> "True", search |-> "True", unmet_search |-> "True",
   series_type |-> "standard", tags |-> <<>>, v3 |-> TRUE]

\* The option arguments the modelled callers of add_multiple_series pass.
AddCalls ==
  { AddDefaults,
    [AddDefaults EXCEPT !.tags = << <<"new">> >>, !.monitor = "none", !.v3 = FALSE],
    [AddDefaults EXCEPT !.series_type = "bogus", !.tags = << <<"new">> >>],
    [AddDefaults EXCEPT !.language_profile = ById(7)] }

\* The option arguments the modelled callers of edit_multiple_series pass
\* (it has no path argument).
EditCalls ==
  { EditDefaults,
    [EditDefaults EXCEPT !.monitor = "all"],
    [EditDefaults EXCEPT !.monitor = "none", !.monitored = "False", !.move_files = "True"],
    [EditDefaults EXCEPT !.season_folder = "True"],
    [EditDefaults EXCEPT !.monitor = "bogus", !.monitored = "True"],
    [EditDefaults EXCEPT !.tags = << <<"old", "new">> >>, !.apply_tags = "replace"],
    [EditDefaults EXCEPT !.tags = << <<"new">> >>, !.apply_tags = "bogus"] }

\* ---------------------------------------------------- Series (arrapi.objs)

\* get_series(tvdb_id=t): the Series the lookup finds, or NotFound.
GetSeries(t) ==
  IF t \in LookupKnown THEN [exc |-> "", show |-> SeriesObj(t, LibraryId(t))]
  ELSE [exc |-> "NotFound", show |-> RawId(t)]

\* show._get_add_data(options): Exists for a series that is in Sonarr (it has
\* an id), else the series' import payload, named here by its tvdbId.
GetAddData(show) ==
  IF show.id # 0 THEN [exc |-> "Exists", data |-> 0] ELSE [exc |-> "", data |-> show.tvdbId]

\* ------------------------------------------------------------------- state

VARIABLES
  op,              \* the method the caller invoked ("" before the call)
  pc,              \* where the call is: idle, a loop, returned or raised
  exc,             \* the exception the call raised ("" when none)
  tvdb_ids,        \* argument: the identifiers
  per_request,     \* argument: <<>> (None) or <<k>>
  args,            \* argument: the option arguments of the call
  options,         \* the option map ("options" in add, "json" in edit and delete)
  built,           \* the option map as validation returned it
  profiles,        \* what GET /languageProfile answered
  created,         \* the tags created on the remote service
  catalog,         \* what GET /series answered
  fetches,         \* how many times GET /series was called
  valid_ids,
  invalid_ids,
  queue,           \* add_multiple_series' json list
  existing_series,
  not_found_ids,
  done,            \* how many of tvdb_ids the add loop has handled
  chunk,           \* the loops' chunk size (the local per_request)
  i,               \* the running range() index of the current loop
  series,          \* the accumulated result list
  result,          \* what a directly called validator returned
  log              \* the batch requests issued so far, with their responses

vars == <<op, pc, exc, tvdb_ids, per_request, args, options, built, profiles, created,
          catalog, fetches, valid_ids, invalid_ids, queue, existing_series, not_found_ids,
          done, chunk, i, series, result, log>>

\* Groups of variables for UNCHANGED.
callVars == <<op, tvdb_ids, per_request, args>>

validationVars == <<built, profiles, created>>

reconcileVars == <<catalog, fetches, valid_ids, invalid_ids>>

addVars == <<queue, existing_series, not_found_ids, done>>

Request(ep, ids, body, resp) == [ep |-> ep, ids |-> ids, body |-> body, resp |-> resp]

Init ==
  /\ op = ""
  /\ pc = "idle"
  /\ exc = ""
  /\ tvdb_ids = <<>>
  /\ per_request = <<>>
  /\ args = <<>>
  /\ options = <<>>
  /\ built = <<>>
  /\ profiles = <<>>
  /\ created = <<>>
  /\ catalog = <<>>
  /\ fetches = 0
  /\ valid_ids = <<>>
  /\ invalid_ids = <<>>
  /\ queue = <<>>
  /\ existing_series = <<>>
  /\ not_found_ids = <<>>
  /\ done = 0
  /\ chunk = 0
  /\ i = 0
  /\ series = <<>>
  /\ result = 0
  /\ log = <<>>

\* -------------------------------------------- the validators, called directly

\* _validate_language_profile(language_profile), lines 348-357.
CallValidateLanguageProfile ==
  /\ pc = "idle"
  /\ \E ps \in ProfileLists,
        c \in {ByName(n) : n \in ProfileNames \cup {"Klingon"}}
              \cup {ById(k) : k \in ProfileIds}
              \cup {ByObject(p) : p \in [id : ProfileIds, name : ProfileNames]} :
       LET r == ValidateLanguageProfile(ps, c) IN
       /\ op' = "_validate_language_profile"
       /\ args' = c
       /\ profiles' = ps
       /\ IF r.ok THEN pc' = "returned" /\ exc' = "" /\ result' = r.value
                  ELSE pc' = "raised" /\ exc' = "Invalid" /\ result' = result
  /\ UNCHANGED <<tvdb_ids, per_request, options, built, created, reconcileVars, addVars,
                 chunk, i, series, log>>

\* _validate_edit_options(...), lines 105-137.
CallValidateEditOptions ==
  /\ pc = "idle"
  /\ \E a \in EditArgs :
       LET r == ValidateEditOptions(a, StandardProfiles) IN
       /\ op' = "_validate_edit_options"
       /\ args' = a
       /\ profiles' = StandardProfiles
       /\ created' = r.created
       /\ exc' = r.exc
       /\ IF r.exc = "" THEN pc' = "returned" /\ options' = r.options /\ built' = r.options
                         ELSE pc' = "raised" /\ options' = options /\ built' = built
  /\ UNCHANGED <<tvdb_ids, per_request, reconcileVars, addVars, chunk, i, series, result,
                 log>>

\* -------------------------------------------------- delete_multiple_series

\* Lines 323-330: reconcile the ids, build json, default per_request.
DeleteStart ==
  /\ pc = "idle"
  /\ \E ids \in SeqsUpTo(Items, MaxLen), pr \in PerRequests, cat \in Catalogs,
        df \in BOOLEAN :
       LET r == ValidateTvdbIds(cat, ids) IN
       /\ op' = "delete_multiple_series"
       /\ tvdb_ids' = ids
       /\ per_request' = pr
       /\ args' = [deleteFiles |-> df, addImportExclusion |-> FALSE]
       /\ catalog' = cat
       /\ fetches' = fetches + 1
       /\ valid_ids' = r.valid_ids
       /\ invalid_ids' = r.invalid_ids
       /\ IF Len(r.valid_ids) > 0
          THEN /\ options' = [deleteFiles |-> df, addImportExclusion |-> FALSE]
               /\ chunk' = ChunkSize(pr, r.valid_ids)
               /\ pc' = "delete"
          ELSE /\ options' = options
               /\ chunk' = chunk
               /\ pc' = "returned"
  /\ i' = 0
  /\ UNCHANGED <<exc, validationVars, addVars, series, result, log>>

\* Lines 331-333: one pass of the loop.
DeleteChunk ==
  /\ pc = "delete"
  /\ i < Len(valid_ids)
  /\ LET json == ("seriesIds" :> Slice(valid_ids, i, chunk)) @@ options IN
     /\ options' = json
     /\ log' = Append(log, Request("DELETE series/editor", json["seriesIds"], json, <<>>))
  /\ i' = i + chunk
  /\ UNCHANGED <<callVars, pc, exc, validationVars, reconcileVars, addVars, chunk, series,
                 result>>

\* Line 334: the loop is over.
DeleteReturn ==
  /\ pc = "delete"
  /\ i >= Len(valid_ids)
  /\ pc' = "returned"
  /\ UNCHANGED <<callVars, exc, options, validationVars, reconcileVars, addVars, chunk, i,
                 series, result, log>>

\* ---------------------------------------------------- edit_multiple_series

\* Lines 289-292: json = self._validate_edit_options(...).
EditStart ==
  /\ pc = "idle"
  /\ \E ids \in SeqsUpTo(Items, MaxLen), pr \in PerRequests, a \in EditCalls :
       LET r == ValidateEditOptions(a, StandardProfiles) IN
       /\ op' = "edit_multiple_series"
       /\ tvdb_ids' = ids
       /\ per_request' = pr
       /\ args' = a
       /\ profiles' = StandardProfiles
       /\ created' = r.created
       /\ exc' = r.exc
       /\ IF r.exc = "" THEN pc' = "validated" /\ options' = r.options /\ built' = r.options
                         ELSE pc' = "raised" /\ options' = options /\ built' = built
  /\ UNCHANGED <<reconcileVars, addVars, chunk, i, series, result, log>>

\* EditBegin with a plausible slip: the call fails when no identifier
\* resolves.
EditBeginRaise(r) ==
  IF Len(r.valid_ids) > 0
  THEN /\ chunk' = ChunkSize(per_request, r.valid_ids)
       /\ IF "monitor" \in DOMAIN options
          THEN /\ options' = [k \in DOMAIN options \ {"monitor"} |-> options[k]]
               /\ pc' = "monitor"
          ELSE /\ options' = options
               /\ pc' = "editor"
       /\ exc' = exc
  ELSE /\ chunk' = chunk
       /\ options' = options
       /\ pc' = "raised"
       /\ exc' = "NotFound"

\* What lines 293-299 do with the reconciled ids r: nothing more when none
\* resolved, else default per_request and pop "monitor" ahead of its loop.
EditBegin(r) ==
  IF Len(r.valid_ids) > 0
  THEN /\ chunk' = ChunkSize(per_request, r.valid_ids)
       /\ IF "monitor" \in DOMAIN options
          THEN /\ options' = [k \in DOMAIN options \ {"monitor"} |-> options[k]]
               /\ pc' = "monitor"
          ELSE /\ options' = options
               /\ pc' = "editor"
       /\ exc' = exc
  ELSE /\ chunk' = chunk
       /\ options' = options
       /\ pc' = "returned"
       /\ exc' = exc

\* Lines 293-299.
EditReconcile ==
  /\ pc = "validated"
  /\ op = "edit_multiple_series"
  /\ \E cat \in Catalogs :
       LET r == ValidateTvdbIds(cat, tvdb_ids) IN
       /\ catalog' = cat
       /\ fetches' = fetches + 1
       /\ valid_ids' = r.valid_ids
       /\ invalid_ids' = r.invalid_ids
       /\ EditBegin(r)
  /\ i' = 0
  /\ UNCHANGED <<callVars, validationVars, addVars, series, result, log>>

\* _edit_series_monitoring(series_ids, monitor), lines 77-84.
EditSeriesMonitoring(series_ids, monitor) ==
  Request("POST seasonPass", series_ids,
          [monitor |-> monitor, monitored |-> monitor # "none"], <<>>)

\* EditorJson with a plausible slip: the payload is built afresh for the
\* chunk and the validated options are lost.
EditorJsonFresh(json, ids) == [seriesIds |-> ids]

\* The option map one pass of the editor loop sends (line 303).
EditorJson(json, ids) == ("seriesIds" :> ids) @@ json

\* EditMonitorChunk with a plausible slip: each chunk is edited right after
\* its monitor call, not after all of them.
EditMonitorChunkInterleaved ==
  /\ pc = "monitor"
  /\ i < Len(valid_ids)
  /\ LET ids == Slice(valid_ids, i, chunk)
         json == EditorJson(options, ids)
     IN /\ log' = log \o << EditSeriesMonitoring(ids, built["monitor"]),
                            Request("PUT series/editor", ids, json, ids) >>
        /\ series' = series \o ids
  /\ i' = i + chunk
  /\ UNCHANGED <<callVars, pc, exc, options, validationVars, reconcileVars, addVars, chunk,
                 result>>

\* Lines 300-301: one pass of the monitor loop; json_monitor is the popped
\* value.
EditMonitorChunk ==
  /\ pc = "monitor"
  /\ i < Len(valid_ids)
  /\ log' = Append(log, EditSeriesMonitoring(Slice(valid_ids, i, chunk), built["monitor"]))
  /\ i' = i + chunk
  /\ UNCHANGED <<callVars, pc, exc, options, validationVars, reconcileVars, addVars, chunk,
                 series, result>>

\* Line 302: the monitor loop is over, the editor loop starts.
EditMonitorDone ==
  /\ pc = "monitor"
  /\ i >= Len(valid_ids)
  /\ pc' = "editor"
  /\ i' = 0
  /\ UNCHANGED <<callVars, exc, options, validationVars, reconcileVars, addVars, chunk,
                 series, result, log>>

\* Lines 302-304: one pass of the editor loop.
EditEditorChunk ==
  /\ pc = "editor"
  /\ i < Len(valid_ids)
  /\ LET json == EditorJson(options, Slice(valid_ids, i, chunk)) IN
     \E resp \in Responses(json["seriesIds"]) :
       /\ options' = json
       /\ log' = Append(log, Request("PUT series/editor", json["seriesIds"], json, resp))
       /\ series' = series \o resp
  /\ i' = i + chunk
  /\ UNCHANGED <<callVars, pc, exc, validationVars, reconcileVars, addVars, chunk, result>>

\* Line 305.
EditReturn ==
  /\ pc = "editor"
  /\ i >= Len(valid_ids)
  /\ pc' = "returned"
  /\ UNCHANGED <<callVars, exc, options, validationVars, reconcileVars, addVars, chunk, i,
                 series, result, log>>

\* ----------------------------------------------------- add_multiple_series

\* Lines 231-237: options = self._validate_add_options(...).
AddStart ==
  /\ pc = "idle"
  /\ \E ids \in SeqsUpTo(Items, MaxLen), pr \in PerRequests, a \in AddCalls :
       LET r == ValidateAddOptions(a, StandardProfiles) IN
       /\ op' = "add_multiple_series"
       /\ tvdb_ids' = ids
       /\ per_request' = pr
       /\ args' = a
       /\ profiles' = StandardProfiles
       /\ created' = r.created
       /\ exc' = r.exc
       /\ IF r.exc = "" THEN pc' = "resolve" /\ options' = r.options /\ built' = r.options
                         ELSE pc' = "raised" /\ options' = options /\ built' = built
  /\ UNCHANGED <<reconcileVars, addVars, chunk, i, series, result, log>>

\* AddBranch with a plausible slip: Exists is not caught.
AddBranchNoCatch(tvdb_id) ==
  LET got == IF tvdb_id.isSeries THEN [exc |-> "", show |-> tvdb_id]
             ELSE GetSeries(tvdb_id.tvdbId)
  IN IF got.exc = "NotFound"
     THEN [branch |-> "not_found", show |-> got.show, data |-> 0, exc |-> ""]
     ELSE LET d == GetAddData(got.show)
          IN IF d.exc = "Exists"
             THEN [branch |-> "raise", show |-> got.show, data |-> 0, exc |-> "Exists"]
             ELSE [branch |-> "queued", show |-> got.show, data |-> d.data, exc |-> ""]

\* AddBranch with a plausible slip: an identifier the lookup does not know
\* is queued for the import.
AddBranchQueueUnknown(tvdb_id) ==
  LET got == IF tvdb_id.isSeries THEN [exc |-> "", show |-> tvdb_id]
             ELSE GetSeries(tvdb_id.tvdbId)
      d == GetAddData(got.show)
  IN IF d.exc = "Exists"
     THEN [branch |-> "exists", show |-> got.show, data |-> 0, exc |-> ""]
     ELSE [branch |-> "queued", show |-> got.show, data |-> d.data, exc |-> ""]

\* The branch the body of the loop (lines 239-246) takes for one element:
\* NotFound from get_series and Exists from _get_add_data are caught; any
\* other exception would leave the call (branch "raise").
AddBranch(tvdb_id) ==
  LET got == IF tvdb_id.isSeries THEN [exc |-> "", show |-> tvdb_id]
             ELSE GetSeries(tvdb_id.tvdbId)
  IN IF got.exc = "NotFound"
     THEN [branch |-> "not_found", show |-> got.show, data |-> 0, exc |-> ""]
     ELSE LET d == GetAddData(got.show)
          IN IF d.exc = "Exists"
             THEN [branch |-> "exists", show |-> got.show, data |-> 0, exc |-> ""]
             ELSE [branch |-> "queued", show |-> got.show, data |-> d.data, exc |-> ""]

\* Lines 238-246: one pass of the loop over tvdb_ids.
AddResolve ==
  /\ pc = "resolve"
  /\ done < Len(tvdb_ids)
  /\ LET tvdb_id == tvdb_ids[done + 1]
         b == AddBranch(tvdb_id)
     IN /\ queue' = IF b.branch = "queued" THEN Append(queue, b.data) ELSE queue
        /\ existing_series' =
             IF b.branch = "exists" THEN Append(existing_series, b.show) ELSE existing_series
        /\ not_found_ids' =
             IF b.branch = "not_found" THEN Append(not_found_ids, tvdb_id.tvdbId)
             ELSE not_found_ids
        /\ IF b.branch = "raise" THEN pc' = "raised" /\ exc' = b.exc
                                 ELSE pc' = pc /\ exc' = exc
  /\ done' = done + 1
  /\ UNCHANGED <<callVars, options, validationVars, reconcileVars, chunk, i, series,
                 result, log>>

\* Lines 247-249: the loop is over; with nothing queued the call returns.
AddBegin ==
  /\ pc = "resolve"
  /\ done >= Len(tvdb_ids)
  /\ IF Len(queue) > 0
     THEN chunk' = ChunkSize(per_request, queue) /\ pc' = "import"
     ELSE chunk' = chunk /\ pc' = "returned"
  /\ i' = 0
  /\ UNCHANGED <<callVars, exc, options, validationVars, reconcileVars, addVars, series,
                 result, log>>

\* The items one pass of the import loop posts (line 251).
ImportChunk(json, at, k) == Slice(json, at, k)

\* Lines 250-251: one pass of the import loop.
AddImportChunk ==
  /\ pc = "import"
  /\ i < Len(queue)
  /\ LET body == ImportChunk(queue, i, chunk) IN
     \E resp \in Responses(body) :
       /\ log' = Append(log, Request("POST series/import", body, options, resp))
       /\ series' = series \o resp
  /\ i' = i + chunk
  /\ UNCHANGED <<callVars, pc, exc, options, validationVars, reconcileVars, addVars, chunk,
                 result>>

\* Line 252.
AddReturn ==
  /\ pc = "import"
  /\ i >= Len(queue)
  /\ pc' = "returned"
  /\ UNCHANGED <<callVars, exc, options, validationVars, reconcileVars, addVars, chunk, i,
                 series, result, log>>

Next ==
  \/ CallValidateLanguageProfile
  \/ CallValidateEditOptions
  \/ DeleteStart
  \/ DeleteChunk
  \/ DeleteReturn
  \/ EditStart
  \/ EditReconcile
  \/ EditMonitorChunk
  \/ EditMonitorDone
  \/ EditEditorChunk
  \/ EditReturn
  \/ AddStart
  \/ AddResolve
  \/ AddBegin
  \/ AddImportChunk
  \/ AddReturn

Spec == Init /\ [][Next]_vars

\* ------------------------------------------------------------------ claims

\* The requests of log sent to endpoint ep, in the order they were issued.
Calls(ep) == SelectSeq(log, LAMBDA e : e.ep = ep)

RECURSIVE Flatten(_)
Flatten(ss) == IF ss = <<>> THEN <<>> ELSE Head(ss) \o Flatten(Tail(ss))

\* The responses of the requests to ep, concatenated in submission order.
ResponsesOf(ep) == Flatten([j \in DOMAIN Calls(ep) |-> Calls(ep)[j].resp])

\* The identifiers of tvdb_ids, in input order.
InputTvdbIds == [j \in DOMAIN tvdb_ids |-> tvdb_ids[j].tvdbId]

Ceil(n, k) == (n + k - 1) \div k

\* The requests to ep are the ceil(n/k) consecutive slices of items, in
\* ascending order: none for n = 0, one with every item when per_request
\* was not given.
Batched(ep, items) ==
  LET n == Len(items)
      k == IF per_request = <<>> THEN n ELSE per_request[1]
      calls == Calls(ep)
  IN IF n = 0 THEN calls = <<>>
     ELSE /\ Len(calls) = Ceil(n, k)
          /\ \A j \in DOMAIN calls :
               calls[j].ids = SubSeq(items, (j - 1) * k + 1, Min(j * k, n))
          /\ per_request = <<>> => Len(calls) = 1 /\ calls[1].ids = items

\* C1: when add_multiple_series, edit_multiple_series or
\* delete_multiple_series returns, each phase has issued ceil(n/k) batch
\* requests for its n items and chunk size k, the requests carry the
\* consecutive slices of the item list in ascending order (none for n = 0, a
\* single one with all items when per_request is not given), and the
\* accumulated result is the responses concatenated in submission order.
C1_Batching ==
  pc = "returned" =>
    /\ op = "delete_multiple_series" => Batched("DELETE series/editor", valid_ids)
    /\ op = "edit_multiple_series" =>
         /\ Batched("PUT series/editor", valid_ids)
         /\ "monitor" \in DOMAIN built => Batched("POST seasonPass", valid_ids)
         /\ "monitor" \notin DOMAIN built => Calls("POST seasonPass") = <<>>
         /\ series = ResponsesOf("PUT series/editor")
    /\ op = "add_multiple_series" =>
         /\ Batched("POST series/import", queue)
         /\ series = ResponsesOf("POST series/import")

\* An edit of three resolved ids, two per request, with a monitor change: two
\* requests per phase, the second shorter, and a response that is not the
\* chunk sent.
C1_Witness ==
  /\ pc = "returned"
  /\ op = "edit_multiple_series"
  /\ Len(valid_ids) = 3
  /\ per_request = <<2>>
  /\ Len(Calls("POST seasonPass")) = 2
  /\ Len(Calls("PUT series/editor")) = 2
  /\ Len(series) = 2

\* C2: in edit_multiple_series every seasonPass request is issued before
\* every series/editor request, and with a monitor change both phases have
\* sent the same sequence of chunks of the resolved ids when the call returns.
C2_MonitorBeforeEdit ==
  op = "edit_multiple_series" =>
    /\ \A a, b \in DOMAIN log :
         log[a].ep = "POST seasonPass" /\ log[b].ep = "PUT series/editor" => a < b
    /\ pc = "editor" /\ "monitor" \in DOMAIN built => Batched("POST seasonPass", valid_ids)
    /\ pc = "returned" /\ "monitor" \in DOMAIN built =>
         [j \in DOMAIN Calls("POST seasonPass") |-> Calls("POST seasonPass")[j].ids]
           = [j \in DOMAIN Calls("PUT series/editor") |-> Calls("PUT series/editor")[j].ids]

\* A returned edit with a monitor change and a field change, in several chunks.
C2_Witness ==
  /\ pc = "returned"
  /\ op = "edit_multiple_series"
  /\ {"monitor", "monitored"} \subseteq DOMAIN built
  /\ Len(Calls("POST seasonPass")) >= 2
  /\ Len(Calls("PUT series/editor")) >= 2

\* C3: a bulk call that ends in a validation error (Invalid or ValueError)
\* has created no tag and has sent no import, seasonPass or series/editor
\* request.
C3_NoMutationOnInvalid ==
  op \in {"add_multiple_series", "edit_multiple_series"} /\ pc = "raised" =>
    created = <<>> /\ log = <<>>

\* The identifier t is in the catalog GET /series answered.
InCatalog(t) == \E m \in DOMAIN catalog : catalog[m].tvdbId = t

\* C4: _validate_tvdb_ids puts every input element in exactly one of the two
\* lists: the unresolved list is the identifiers absent from the catalog, in
\* input order and with their duplicates; the resolved list has, in input
\* order and with duplicates, a Sonarr id of the catalog for each identifier
\* present; the lengths add up to the input's; the catalog is fetched once.
C4_Reconciled ==
  op \in {"edit_multiple_series", "delete_multiple_series"}
    /\ pc \in {"monitor", "editor", "delete", "returned"} =>
    LET found == SelectSeq(InputTvdbIds, InCatalog)
        missing == SelectSeq(InputTvdbIds, LAMBDA t : ~InCatalog(t))
    IN /\ Len(valid_ids) + Len(invalid_ids) = Len(tvdb_ids)
       /\ invalid_ids = missing
       /\ Len(valid_ids) = Len(found)
       /\ \A j \in DOMAIN valid_ids :
            \E m \in DOMAIN catalog :
              catalog[m].tvdbId = found[j] /\ catalog[m].id = valid_ids[j]
       /\ fetches = 1

\* A raw id given twice and a Series object, some resolved and some not.
C4_Witness ==
  /\ op = "delete_multiple_series"
  /\ pc = "returned"
  /\ Len(tvdb_ids) = 3
  /\ tvdb_ids[1] = tvdb_ids[3]
  /\ tvdb_ids[2].isSeries
  /\ Len(valid_ids) = 2
  /\ Len(invalid_ids) = 1

\* What the remote service holds for an element of tvdb_ids: unknown to the
\* lookup, already in Sonarr, or new.
Unknown(item) == ~item.isSeries /\ item.tvdbId \notin LookupKnown

InSonarr(item) ==
  ~Unknown(item) /\ (IF item.isSeries THEN item.id # 0 ELSE LibraryId(item.tvdbId) # 0)

\* C5: in add_multiple_series every handled element of tvdb_ids is in exactly
\* one bucket: the import queue holds the new ones, existing_series those
\* already in Sonarr and not_found_ids the unknown ones, each in input order
\* with duplicates; all elements are handled before the import starts; and
\* neither NotFound nor Exists leaves the call.
C5_AddBuckets ==
  op = "add_multiple_series" =>
    /\ exc \notin {"NotFound", "Exists"}
    /\ pc # "raised" =>
         LET handled == SubSeq(tvdb_ids, 1, done)
             tvdb(items) == [j \in DOMAIN items |-> items[j].tvdbId]
         IN /\ queue = tvdb(SelectSeq(handled, LAMBDA x : ~Unknown(x) /\ ~InSonarr(x)))
            /\ tvdb(existing_series) = tvdb(SelectSeq(handled, InSonarr))
            /\ not_found_ids = tvdb(SelectSeq(handled, Unknown))
            /\ Len(queue) + Len(existing_series) + Len(not_found_ids) = done
    /\ pc \in {"import", "returned"} => done = Len(tvdb_ids)

\* A returned add whose three identifiers went to the three buckets.
C5_Witness ==
  /\ op = "add_multiple_series"
  /\ pc = "returned"
  /\ Len(queue) = 1
  /\ Len(existing_series) = 1
  /\ Len(not_found_ids) = 1
  /\ Len(series) = 1

\* The key _validate_edit_options stores the field f under.
KeyOf(f, v3) ==
  CASE f = "root_folder" -> "rootFolderPath"
    [] f = "path" -> "path"
    [] f = "quality_profile" -> (IF v3 THEN "qualityProfileId" ELSE "profileId")
    [] f = "language_profile" -> "languageProfileId"
    [] f = "monitor" -> "monitor"
    [] f = "monitored" -> "monitored"
    [] f = "season_folder" -> "seasonFolder"
    [] f = "series_type" -> "seriesType"
    [] f = "tags" -> "tags"

\* The values of a the remote service and the enumerations accept.
ValidArgs(a) ==
  /\ a.root_folder \in {NONE} \cup RootFolders
  /\ a.quality_profile \in {NONE} \cup DOMAIN QualityProfileIds
  /\ a.language_profile.kind = "name" =>
       \E j \in DOMAIN StandardProfiles : StandardProfiles[j].name = a.language_profile.name
  /\ a.monitor \in {NONE} \cup monitor_options
  /\ a.series_type \in {NONE} \cup series_type_options
  /\ a.tags # <<>> => a.apply_tags \in apply_tags_options

\* C6 as stated: with every optional field None the call fails with
\* ValueError; with exactly one field given, and valid, it succeeds and the
\* map holds that field's key and moveFiles, and nothing else.
C6_OnlyThatField ==
  op = "_validate_edit_options" =>
    /\ AllNone(args) => pc = "raised" /\ exc = "ValueError"
    /\ Cardinality(FieldsSet(args)) = 1 /\ ValidArgs(args) =>
         /\ pc = "returned"
         /\ \A f \in FieldsSet(args) :
              DOMAIN options = {"moveFiles", KeyOf(f, args.v3)}

\* C6, amended: as C6_OnlyThatField, but the one field tags emits two keys,
\* tags and applyTags.
C6_OnlyThatFieldsKeys ==
  op = "_validate_edit_options" =>
    /\ AllNone(args) => pc = "raised" /\ exc = "ValueError"
    /\ Cardinality(FieldsSet(args)) = 1 /\ ValidArgs(args) =>
         /\ pc = "returned"
         /\ \A f \in FieldsSet(args) :
              DOMAIN options = {"moveFiles", KeyOf(f, args.v3)}
                                 \cup (IF f = "tags" THEN {"applyTags"} ELSE {})
         /\ options["moveFiles"] = Truthy(args.move_files)

\* A successful call with tags as its only field.
C6_Witness ==
  /\ op = "_validate_edit_options"
  /\ pc = "returned"
  /\ FieldsSet(args) = {"tags"}
  /\ args.tags = << <<"new">> >>
  /\ options["applyTags"] = "remove"

\* C7: in add_multiple_series an identifier the lookup does not know is put
\* in not_found_ids and is in no series/import request, and a call that
\* queued nothing sends no request at all.
C7_NotFoundNotSent ==
  op = "add_multiple_series" /\ pc # "raised" =>
    /\ \A j \in 1..done :
         Unknown(tvdb_ids[j]) =>
           /\ tvdb_ids[j].tvdbId \in Range(not_found_ids)
           /\ \A e \in Range(log) : tvdb_ids[j].tvdbId \notin Range(e.ids)
    /\ \A e \in Range(log), t \in Range(not_found_ids) : t \notin Range(e.ids)
    /\ pc = "returned" /\ queue = <<>> => log = <<>>

\* A returned add that found one identifier nowhere and imported another.
C7_Witness ==
  /\ op = "add_multiple_series"
  /\ pc = "returned"
  /\ not_found_ids = <<3>>
  /\ Len(tvdb_ids) = 2
  /\ Len(Calls("POST series/import")) = 1

\* C8 as stated: from the end of validation to the return of
\* add_multiple_series or edit_multiple_series the option map is the one
\* validation built.
C8_OptionsImmutable ==
  op \in {"add_multiple_series", "edit_multiple_series"} /\ pc \notin {"idle", "raised"} =>
    options = built

\* The map m without the keys edit_multiple_series itself manages.
Validated(m) == [k \in DOMAIN m \ {"monitor", "seriesIds"} |-> m[k]]

\* C8, amended: add_multiple_series never changes its option map.
\* edit_multiple_series removes "monitor" before its first seasonPass request
\* and writes "seriesIds" for every chunk; every other key keeps the value
\* validation gave it until the call returns, and every series/editor request
\* carries those values.
C8_ValidatedValuesKept ==
  /\ op = "add_multiple_series" /\ pc # "raised" =>
       /\ options = built
       /\ \A e \in Range(log) : e.body = built
  /\ op = "edit_multiple_series" /\ pc # "raised" =>
       /\ Validated(options) = Validated(built)
       /\ "seriesIds" \notin DOMAIN built
       /\ pc \in {"monitor", "editor"} => "monitor" \notin DOMAIN options
       /\ \A e \in Range(log) :
            e.ep = "PUT series/editor" =>
              /\ Validated(e.body) = Validated(built)
              /\ "monitor" \notin DOMAIN e.body
              /\ e.body["seriesIds"] = e.ids

\* A returned edit that sent two chunks after a monitor change.
C8_Witness ==
  /\ op = "edit_multiple_series"
  /\ pc = "returned"
  /\ "monitor" \in DOMAIN built
  /\ "monitor" \notin DOMAIN options
  /\ Len(Calls("PUT series/editor")) = 2
  /\ options["seriesIds"] # Calls("PUT series/editor")[1].ids

\* The candidate matches no profile of the fetched list.
NoProfileFor(c) ==
  \A j \in DOMAIN profiles :
    IF c.kind = "name" THEN profiles[j].name # c.name ELSE profiles[j].id # c.id

\* C9 as stated: for every profile P of the fetched list, validating P's
\* name, P's id and P itself each returns P's id; a candidate that matches no
\* profile fails with Invalid.
C9_RoundTrip ==
  op = "_validate_language_profile" =>
    /\ \A j \in DOMAIN profiles :
         args \in {ByName(profiles[j].name), ById(profiles[j].id), ByObject(profiles[j])} =>
           pc = "returned" /\ result = profiles[j].id
    /\ NoProfileFor(args) => pc = "raised" /\ exc = "Invalid"

\* C9, amended: P's id and P itself validate to P's id; P's name validates
\* to the id of the first profile of the list with that name, which is P's
\* id when no earlier profile shares the name; a candidate that matches no
\* profile fails with Invalid, and only such a candidate fails.
C9_FirstMatch ==
  op = "_validate_language_profile" =>
    /\ \A j \in DOMAIN profiles :
         /\ args \in {ById(profiles[j].id), ByObject(profiles[j])} =>
              pc = "returned" /\ result = profiles[j].id
         /\ args = ByName(profiles[j].name)
              /\ (\A m \in 1..(j - 1) : profiles[m].name # profiles[j].name) =>
              pc = "returned" /\ result = profiles[j].id
    /\ NoProfileFor(args) <=> pc = "raised"
    /\ pc = "raised" => exc = "Invalid"

\* The second of two profiles, with a name of its own, validated by its id.
C9_Witness ==
  /\ op = "_validate_language_profile"
  /\ pc = "returned"
  /\ Len(profiles) = 2
  /\ profiles[1].name # profiles[2].name
  /\ args = ById(profiles[2].id)
  /\ result = profiles[2].id

\* C10 as stated: an edit_multiple_series that was given identifiers, none of
\* which resolves, ends in a failure.
C10_FailsWhenNoneResolves ==
  op = "edit_multiple_series" /\ fetches = 1 /\ tvdb_ids # <<>> /\ valid_ids = <<>> =>
    pc = "raised"

\* C10, amended: with no edit option the call fails with ValueError before
\* the catalog is fetched or a request is sent; when none of the identifiers
\* resolves the call returns normally, with an empty list of edited series
\* and every identifier in the unresolved list, and no seasonPass or
\* series/editor request is sent.
C10_NoneResolvesReturns ==
  op = "edit_multiple_series" =>
    /\ AllNone(args) => pc = "raised" /\ exc = "ValueError" /\ fetches = 0 /\ log = <<>>
    /\ fetches = 1 /\ valid_ids = <<>> =>
         /\ pc = "returned"
         /\ exc = ""
         /\ series = <<>>
         /\ invalid_ids = InputTvdbIds
         /\ log = <<>>

\* A returned edit with a monitor change, none of whose two identifiers
\* resolved.
C10_Witness ==
  /\ op = "edit_multiple_series"
  /\ pc = "returned"
  /\ "monitor" \in DOMAIN built
  /\ Len(tvdb_ids) = 2
  /\ valid_ids = <<>>
  /\ catalog # <<>>

====
